---- MODULE Spec2Model ----
(***************************************************************************)
(* CRUD back end for projects, packages and clients.                       *)
(*                                                                         *)
(* Three builds of the server are modelled side by side, selected by the   *)
(* variable `variant`:                                                     *)
(*   "rel"  the relational build: the handlers of cmd/server/main.go       *)
(*          (projects, packages) and of internal/handlers (clients) over   *)
(*          an ent client on PostgreSQL;                                   *)
(*   "fs"   the document-store build (unnamed/part_000): projects and      *)
(*          packages kept in two Firestore collections;                    *)
(*   "old"  the package handlers of the earlier relational build, main.go  *)
(*          at the top of the tree, over the first packages schema.        *)
(* Every action is one whole HTTP handler, from the path and body it is    *)
(* given to the response it writes; the route tables that main registers   *)
(* are kept apart, as data.  A request body is given as the Go     *)
(* struct json.Decode leaves behind (an absent key and an empty string are *)
(* both ""), or as malformed.  Strings that the code parses (path ids, the *)
(* stacks column) are sequences of characters or tokens and are parsed.    *)
(***************************************************************************)
EXTENDS Integers, Sequences, FiniteSets, TLC

(***************************************************************************)
(* Bounds of the model.                                                    *)
(***************************************************************************)
\* Ids handed out over a run, all tables or collections together.
MaxRecords == 2

(***************************************************************************)
(* Go values.                                                              *)
(***************************************************************************)
\* A []string: nil, or a (possibly empty) sequence.
NilSlice == [nil |-> TRUE, elems |-> <<>>]

Slice(s) == [nil |-> FALSE, elems |-> s]

\* len(s)
GoLen(sl) == Len(sl.elems)

\* append(s, x): never nil afterwards.
GoAppend(sl, x) == [nil |-> FALSE, elems |-> Append(sl.elems, x)]

(***************************************************************************)
(* encoding/json on []string, as text: a sequence of tokens, a string      *)
(* element being one token.                                                *)
(***************************************************************************)
RECURSIVE JoinElems(_)
JoinElems(s) ==
    IF Len(s) = 0 THEN <<>>
    ELSE IF Len(s) = 1 THEN <<s[1]>>
    ELSE <<s[1], ",">> \o JoinElems(Tail(s))

\* json.Marshal(stacks)
MarshalStacks(sl) ==
    IF sl.nil THEN <<"null">> ELSE <<"[">> \o JoinElems(sl.elems) \o <<"]">>

\* The elements between the brackets: err when the commas are not in place.
RECURSIVE ParseElems(_)
ParseElems(t) ==
    IF Len(t) = 0 THEN [err |-> TRUE, elems |-> <<>>]
    ELSE IF t[1] \in {",", "[", "]", "null"} THEN [err |-> TRUE, elems |-> <<>>]
    ELSE IF Len(t) = 1 THEN [err |-> FALSE, elems |-> <<t[1]>>]
    ELSE IF t[2] # "," THEN [err |-> TRUE, elems |-> <<>>]
    ELSE LET r == ParseElems(SubSeq(t, 3, Len(t)))
         IN  [err |-> r.err, elems |-> <<t[1]>> \o r.elems]

\* json.Unmarshal(text, &stacks) into a nil []string: [err, val].
UnmarshalStacks(t) ==
    IF t = <<"null">> THEN [err |-> FALSE, val |-> NilSlice]
    ELSE IF Len(t) >= 2 /\ t[1] = "[" /\ t[Len(t)] = "]"
    THEN IF Len(t) = 2 THEN [err |-> FALSE, val |-> Slice(<<>>)]
         ELSE LET r == ParseElems(SubSeq(t, 2, Len(t) - 1))
              IN  [err |-> r.err, val |-> IF r.err THEN NilSlice ELSE Slice(r.elems)]
    ELSE [err |-> TRUE, val |-> NilSlice]

\* var stacks []string; if err := json.Unmarshal(...); err != nil { stacks = []string{} }
DecodeStacks(t) ==
    LET r == UnmarshalStacks(t) IN IF r.err THEN Slice(<<>>) ELSE r.val

\* json.NewEncoder(w).Encode(x) of a slice: nil is written as null.
EncodeSlice(sl) == IF sl.nil THEN "null" ELSE "array"

(***************************************************************************)
(* Path ids: sequences of characters.                                      *)
(***************************************************************************)
Digits == <<"0", "1", "2", "3", "4", "5", "6", "7", "8", "9">>

IsDigit(c) == \E i \in 1..10 : Digits[i] = c

DigitVal(c) == (CHOOSE i \in 1..10 : Digits[i] = c) - 1

\* The decimal value of a sequence of digits.
RECURSIVE DecVal(_)
DecVal(s) ==
    IF Len(s) = 0 THEN 0
    ELSE 10 * DecVal(SubSeq(s, 1, Len(s) - 1)) + DigitVal(s[Len(s)])

\* The longest prefix of digits.
RECURSIVE DigitPrefix(_)
DigitPrefix(s) ==
    IF Len(s) = 0 \/ ~IsDigit(s[1]) THEN <<>>
    ELSE <<s[1]>> \o DigitPrefix(Tail(s))

\* strconv.Atoi(s): the whole string must be digits.
Atoi(s) ==
    IF Len(s) > 0 /\ DigitPrefix(s) = s
    THEN [err |-> FALSE, val |-> DecVal(s)]
    ELSE [err |-> TRUE, val |-> 0]

\* fmt.Sscan(s, &id): reads the leading digits and stops at the first other
\* character; an error only when there is no leading digit.  id keeps its
\* zero value on error.
Sscan(s) ==
    LET p == DigitPrefix(s)
    IN  IF Len(p) > 0 THEN [err |-> FALSE, val |-> DecVal(p)]
        ELSE [err |-> TRUE, val |-> 0]

(***************************************************************************)
(* State.                                                                  *)
(***************************************************************************)
VARIABLES
    variant,    \* "rel" or "fs": the build that is running
    serving,    \* the resources the requests of this run address
    store,      \* table or collection of each resource: id -> row or document
    seq,        \* ids handed out so far by each table's serial / collection
    req,        \* the request handled last
    resp,       \* the response written to it
    before,     \* store as it was when that request arrived
    created,    \* per resource, the ids returned by a 201
    deleted,    \* per resource, the ids whose DELETE was answered 200
    mainPC,     \* where main is: "start", "routes", "listening" or "exited"
    Client,     \* database.Client, the package-level ent client: "nil" or "open"
    conns,      \* who holds an open store client: "main" or a request in flight
    inflight    \* per worker goroutine, the request it is part-way through

vars == <<variant, serving, store, seq, req, resp, before, created, deleted,
          mainPC, Client, conns, inflight>>

AllResources == {"projects", "packages", "clients"}

\* The resources a build serves.
Resources(v) ==
    IF v = "rel" THEN AllResources
    ELSE IF v = "old" THEN {"packages"}
    ELSE {"projects", "packages"}

EmptyTable == <<>>

\* Nothing written to the connection.
NoResponse == [status |-> 0, ctype |-> "", enc |-> "none", body |-> <<>>]

\* The goroutines net/http runs handlers on, as far as the model follows them.
Workers == {"w1", "w2"}

\* A goroutine with no request.
Idle == [pc |-> "idle", op |-> "none", field |-> "none", local |-> <<>>, status |-> 0]

NoBody == [none |-> TRUE]

NoPath == <<>>

Allocated == seq["projects"] + seq["packages"] + seq["clients"]

\* A run addresses one resource, with every request shape below, or all the
\* resources of the build, with the plain requests only.  The server is up:
\* main has got as far as ListenAndServe, and each request is handled from
\* beginning to end before the next.
Init ==
    /\ variant \in {"rel", "fs", "old"}
    /\ serving \in {{r} : r \in Resources(variant)} \cup {Resources(variant)}
    /\ store = [r \in AllResources |-> EmptyTable]
    /\ seq = [r \in AllResources |-> 0]
    /\ req = [op |-> "none", res |-> "none", id |-> NoPath, body |-> NoBody,
              malformed |-> FALSE, fail |-> "none", cut |-> 0]
    /\ resp = [status |-> 0, ctype |-> "", enc |-> "none", body |-> <<>>]
    /\ before = [r \in AllResources |-> EmptyTable]
    /\ created = [r \in AllResources |-> {}]
    /\ deleted = [r \in AllResources |-> {}]
    /\ mainPC = "listening"
    /\ Client = IF variant = "fs" THEN "nil" ELSE "open"
    /\ conns = IF variant = "fs" THEN {} ELSE {"main"}
    /\ inflight = [w \in Workers |-> Idle]

(***************************************************************************)
(* net/http responses.                                                     *)
(***************************************************************************)
\* http.Error(w, msg, code): plain text.
HttpError(code) ==
    [status |-> code, ctype |-> "text/plain", enc |-> "text", body |-> <<>>]

\* w.WriteHeader(code); json.NewEncoder(w).Encode(v) with no Content-Type set:
\* net/http sniffs the body, and JSON text is sniffed as plain text.
SniffedJSON(code, enc, body) ==
    [status |-> code, ctype |-> "text/plain", enc |-> enc, body |-> body]

\* w.Header().Set("Content-Type", "application/json"); Encode(v): status 200.
JSON(enc, body) ==
    [status |-> 200, ctype |-> "application/json", enc |-> enc, body |-> body]

(***************************************************************************)
(* The ent client over PostgreSQL, per the schemas in ent/schema.          *)
(***************************************************************************)
\* A name longer than the 100 characters the packages and clients schemas allow.
LongName == "n101"

\* len(s) of the strings the requests carry.
StrLen(s) == IF s = "" THEN 0 ELSE IF s = LongName THEN 101 ELSE 1

NameMaxLen == 100

DescMaxLen == 1000

\* The field validators ent runs on the fields a mutation sets.
ValidationErr(res, sets) ==
    \/ "name" \in DOMAIN sets /\ sets["name"] = ""
    \/ /\ res \in {"packages", "clients"}
       /\ "name" \in DOMAIN sets
       /\ StrLen(sets["name"]) > NameMaxLen
    \/ /\ res \in {"projects", "packages"}
       /\ "description" \in DOMAIN sets
       /\ StrLen(sets["description"]) > DescMaxLen

\* A table with no unique index (not the program's).
UniqueErrNever(res, t, id, sets) == FALSE

\* The unique index on name (packages, clients).
UniqueErr(res, t, id, sets) ==
    /\ res \in {"packages", "clients"}
    /\ "name" \in DOMAIN sets
    /\ \E j \in DOMAIN t : j # id /\ t[j]["name"] = sets["name"]

\* A Get that hands back a row whatever the id (not the program's).
EntGetAny(t, id, fail) ==
    IF DOMAIN t = {} THEN [err |-> "notfound"]
    ELSE [err |-> "none", row |-> t[CHOOSE j \in DOMAIN t : TRUE]]

\* Client.X.Get(ctx, id)
EntGet(t, id, fail) ==
    IF fail THEN [err |-> "other"]
    ELSE IF id \in DOMAIN t THEN [err |-> "none", row |-> t[id]]
    ELSE [err |-> "notfound"]

\* The rows with ids i..n, in id order.
RECURSIVE RowsFrom(_, _, _)
RowsFrom(t, i, n) ==
    IF i > n THEN <<>>
    ELSE (IF i \in DOMAIN t THEN <<[id |-> i, row |-> t[i]]>> ELSE <<>>)
         \o RowsFrom(t, i + 1, n)

\* Client.X.Query().All(ctx)
EntAll(t, n, fail) ==
    IF fail THEN [err |-> "other"] ELSE [err |-> "none", rows |-> RowsFrom(t, 1, n)]

\* Client.X.Create().Set...().Save(ctx): the serial hands out the next id; a
\* row refused by the unique index has used its id up.
EntCreateSave(res, t, n, row, fail) ==
    IF fail THEN [err |-> "other", table |-> t, seq |-> n]
    ELSE IF ValidationErr(res, row) THEN [err |-> "validation", table |-> t, seq |-> n]
    ELSE IF UniqueErr(res, t, 0, row) THEN [err |-> "constraint", table |-> t, seq |-> n + 1]
    ELSE [err |-> "none", id |-> n + 1, table |-> (n + 1 :> row) @@ t, seq |-> n + 1]

\* An update that writes every column, the ones not set as their zero value
\* (not the program's).
EntUpdateWholeRow(res, t, id, sets, fail) ==
    IF fail THEN [err |-> "other", table |-> t]
    ELSE IF ValidationErr(res, sets) THEN [err |-> "validation", table |-> t]
    ELSE IF id \notin DOMAIN t THEN [err |-> "notfound", table |-> t]
    ELSE IF UniqueErr(res, t, id, sets) THEN [err |-> "constraint", table |-> t]
    ELSE LET row == [f \in DOMAIN t[id] |->
                        IF f \in DOMAIN sets THEN sets[f]
                        ELSE IF f = "stacks" THEN <<>> ELSE ""]
         IN  [err |-> "none", id |-> id, row |-> row,
              table |-> [t EXCEPT ![id] = row]]

\* Client.X.UpdateOneID(id).Set...().Save(ctx): writes the fields set, returns the row.
EntUpdateOneSave(res, t, id, sets, fail) ==
    IF fail THEN [err |-> "other", table |-> t]
    ELSE IF ValidationErr(res, sets) THEN [err |-> "validation", table |-> t]
    ELSE IF id \notin DOMAIN t THEN [err |-> "notfound", table |-> t]
    ELSE IF UniqueErr(res, t, id, sets) THEN [err |-> "constraint", table |-> t]
    ELSE LET row == [f \in DOMAIN t[id] |->
                        IF f \in DOMAIN sets THEN sets[f] ELSE t[id][f]]
         IN  [err |-> "none", id |-> id, row |-> row,
              table |-> [t EXCEPT ![id] = row]]

\* A delete that empties the table (not the program's).
EntDeleteEveryRow(t, id, fail) ==
    IF fail THEN [err |-> "other", table |-> t]
    ELSE IF id \notin DOMAIN t THEN [err |-> "notfound", table |-> t]
    ELSE [err |-> "none", table |-> <<>>]

\* Client.X.DeleteOneID(id).Exec(ctx)
EntDeleteOneExec(t, id, fail) ==
    IF fail THEN [err |-> "other", table |-> t]
    ELSE IF id \notin DOMAIN t THEN [err |-> "notfound", table |-> t]
    ELSE [err |-> "none", table |-> [j \in DOMAIN t \ {id} |-> t[j]]]

\* ent.IsNotFound(err)
IsNotFound(err) == err = "notfound"

(***************************************************************************)
(* Handlers: what each one answers and what it leaves in its table.        *)
(* An outcome is [resp, table, seq, made]: the response, the table and its *)
(* serial afterwards, and the ids of the rows the request inserted.        *)
(***************************************************************************)
Request(op, res, id, body, malformed, fail, cut) ==
    [op |-> op, res |-> res, id |-> id, body |-> body,
     malformed |-> malformed, fail |-> fail, cut |-> cut]

Outcome(rs, t, n, made) == [resp |-> rs, table |-> t, seq |-> n, made |-> made]

\* for _, row := range rows { response = append(response, entry(row)) }
RECURSIVE AppendAll(_, _)
AppendAll(sl, entries) ==
    IF Len(entries) = 0 THEN sl
    ELSE AppendAll(GoAppend(sl, entries[1]), Tail(entries))

\* ---- projects (cmd/server/main.go, package handlers) --------------------

\* A response that always takes the fallback for stacks (not the program's).
ProjectResponseNoStacks(id, row) ==
    [id |-> id,
     data |-> [name |-> row["name"], imageUrl |-> row["imageUrl"],
               link |-> row["link"], description |-> row["description"],
               stacks |-> Slice(<<>>)]]

\* models.ProjectResponse built from a row of the projects table.
ProjectResponse(id, row) ==
    [id |-> id,
     data |-> [name |-> row["name"], imageUrl |-> row["imageUrl"],
               link |-> row["link"], description |-> row["description"],
               stacks |-> DecodeStacks(row["stacks"])]]

CreateProject(t, n, body, malformed, fail) ==
    IF malformed THEN Outcome(HttpError(400), t, n, {})
    ELSE IF body.name = "" THEN Outcome(HttpError(400), t, n, {})
    ELSE IF body.imageUrl = "" THEN Outcome(HttpError(400), t, n, {})
    ELSE IF body.link = "" THEN Outcome(HttpError(400), t, n, {})
    ELSE IF body.description = "" THEN Outcome(HttpError(400), t, n, {})
    ELSE LET stacksJSON == MarshalStacks(body.stacks)
             row == [name |-> body.name, imageUrl |-> body.imageUrl,
                     link |-> body.link, description |-> body.description,
                     stacks |-> stacksJSON]
             saved == EntCreateSave("projects", t, n, row, fail)
         IN  IF saved.err # "none"
             THEN Outcome(HttpError(500), saved.table, saved.seq, {})
             ELSE Outcome(SniffedJSON(201, "object", <<[id |-> saved.id, data |-> body]>>),
                          saved.table, saved.seq, {saved.id})

GetProjects(t, n, fail) ==
    LET all == EntAll(t, n, fail)
    IN  IF all.err # "none" THEN Outcome(HttpError(500), t, n, {})
        ELSE LET response ==
                     AppendAll(NilSlice,
                               [i \in 1..Len(all.rows) |->
                                   ProjectResponse(all.rows[i].id, all.rows[i].row)])
             IN  Outcome(JSON(EncodeSlice(response), response.elems), t, n, {})

GetProjectByID(t, n, idStr, fail) ==
    LET id == Atoi(idStr)
    IN  IF id.err THEN Outcome(HttpError(400), t, n, {})
        ELSE LET got == EntGet(t, id.val, fail)
             IN  IF got.err # "none"
                 THEN IF IsNotFound(got.err) THEN Outcome(HttpError(404), t, n, {})
                      ELSE Outcome(HttpError(500), t, n, {})
                 ELSE Outcome(JSON("object", <<ProjectResponse(id.val, got.row)>>), t, n, {})

\* A full replace: every field of the body is set (not the program's).
ProjectSetsReplace(body) ==
    [f \in {"name", "imageUrl", "link", "description", "stacks"}
        |-> IF f = "stacks" THEN MarshalStacks(body.stacks) ELSE body[f]]

\* Sets that take the stacks of the body whenever the key is there, an
\* empty list too (not the program's).
ProjectSetsStacksNonNil(body) ==
    [f \in {g \in {"name", "imageUrl", "link", "description"} : body[g] # ""}
           \cup (IF ~body.stacks.nil THEN {"stacks"} ELSE {})
        |-> IF f = "stacks" THEN MarshalStacks(body.stacks) ELSE body[f]]

\* The fields UpdateProjectHandler sets on the update builder.
ProjectSets(body) ==
    [f \in {g \in {"name", "imageUrl", "link", "description"} : body[g] # ""}
           \cup (IF GoLen(body.stacks) > 0 THEN {"stacks"} ELSE {})
        |-> IF f = "stacks" THEN MarshalStacks(body.stacks) ELSE body[f]]

UpdateProject(t, n, idStr, body, malformed, fail) ==
    IF idStr = <<>> THEN Outcome(HttpError(400), t, n, {})
    ELSE LET id == Sscan(idStr).val     \* the error of Sscan is dropped
         IN  IF malformed THEN Outcome(HttpError(400), t, n, {})
             ELSE LET saved == EntUpdateOneSave("projects", t, id, ProjectSets(body), fail)
                  IN  IF saved.err # "none" THEN Outcome(HttpError(500), saved.table, n, {})
                      ELSE Outcome(JSON("object", <<ProjectResponse(saved.id, saved.row)>>),
                                   saved.table, n, {})

DeleteProject(t, n, idStr, fail) ==
    IF idStr = <<>> THEN Outcome(HttpError(400), t, n, {})
    ELSE LET id == Sscan(idStr)
         IN  IF id.err THEN Outcome(HttpError(400), t, n, {})
             ELSE LET done == EntDeleteOneExec(t, id.val, fail)
                  IN  IF done.err # "none" THEN Outcome(HttpError(500), done.table, n, {})
                      ELSE Outcome(SniffedJSON(200, "message", <<>>), done.table, n, {})

\* ---- packages (cmd/server/main.go, package handlers) --------------------

\* models.PackageResponse built from a row of the packages table.
PackageResponse(id, row) ==
    [id |-> id,
     data |-> [name |-> row["name"], link |-> row["link"],
               description |-> row["description"],
               stacks |-> DecodeStacks(row["stacks"])]]

CreatePackage(t, n, body, malformed, fail) ==
    IF malformed THEN Outcome(HttpError(400), t, n, {})
    ELSE IF body.name = "" THEN Outcome(HttpError(400), t, n, {})
    ELSE LET stacksJSON == MarshalStacks(body.stacks)
             row == [name |-> body.name, link |-> body.link,
                     description |-> body.description, stacks |-> stacksJSON]
             saved == EntCreateSave("packages", t, n, row, fail)
         IN  IF saved.err # "none"
             THEN Outcome(HttpError(500), saved.table, saved.seq, {})
             ELSE Outcome(SniffedJSON(201, "object", <<[id |-> saved.id, data |-> body]>>),
                          saved.table, saved.seq, {saved.id})

GetPackages(t, n, fail) ==
    LET all == EntAll(t, n, fail)
    IN  IF all.err # "none" THEN Outcome(HttpError(500), t, n, {})
        ELSE LET response ==
                     AppendAll(NilSlice,
                               [i \in 1..Len(all.rows) |->
                                   PackageResponse(all.rows[i].id, all.rows[i].row)])
             IN  Outcome(JSON(EncodeSlice(response), response.elems), t, n, {})

GetPackageByID(t, n, idStr, fail) ==
    LET packageID == Atoi(idStr)
    IN  IF packageID.err THEN Outcome(HttpError(400), t, n, {})
        ELSE LET got == EntGet(t, packageID.val, fail)
             IN  IF got.err # "none"
                 THEN IF IsNotFound(got.err) THEN Outcome(HttpError(404), t, n, {})
                      ELSE Outcome(HttpError(500), t, n, {})
                 ELSE Outcome(JSON("object", <<PackageResponse(packageID.val, got.row)>>),
                              t, n, {})

\* The fields UpdatePackageHandler sets on the update builder.
PackageSets(body) ==
    [f \in {g \in {"name", "link", "description"} : body[g] # ""}
           \cup (IF GoLen(body.stacks) > 0 THEN {"stacks"} ELSE {})
        |-> IF f = "stacks" THEN MarshalStacks(body.stacks) ELSE body[f]]

UpdatePackage(t, n, idStr, body, malformed, fail) ==
    LET packageID == Atoi(idStr)
    IN  IF packageID.err THEN Outcome(HttpError(400), t, n, {})
        ELSE IF malformed THEN Outcome(HttpError(400), t, n, {})
        ELSE LET saved == EntUpdateOneSave("packages", t, packageID.val,
                                           PackageSets(body), fail)
             IN  IF saved.err # "none"
                 THEN IF IsNotFound(saved.err) THEN Outcome(HttpError(404), saved.table, n, {})
                      ELSE Outcome(HttpError(500), saved.table, n, {})
                 ELSE Outcome(JSON("object", <<PackageResponse(saved.id, saved.row)>>),
                              saved.table, n, {})

DeletePackage(t, n, idStr, fail) ==
    LET packageID == Sscan(idStr)
    IN  IF packageID.err THEN Outcome(HttpError(400), t, n, {})
        ELSE LET done == EntDeleteOneExec(t, packageID.val, fail)
             IN  IF done.err # "none" THEN Outcome(HttpError(500), done.table, n, {})
                 ELSE Outcome(SniffedJSON(200, "message", <<>>), done.table, n, {})

\* ---- clients (internal/handlers/client_handlers.go) ---------------------

\* models.ClientResponse built from a row of the clients table.
ClientResponse(id, row) ==
    [id |-> id,
     data |-> [name |-> row["name"], link |-> row["link"], imageUrl |-> row["imageUrl"]]]

\* A create that requires the name only (not the program's).
CreateClientNameOnly(t, n, body, malformed, fail) ==
    IF malformed THEN Outcome(HttpError(400), t, n, {})
    ELSE IF body.name = "" THEN Outcome(HttpError(400), t, n, {})
    ELSE LET row == [name |-> body.name, link |-> body.link, imageUrl |-> body.imageUrl]
             saved == EntCreateSave("clients", t, n, row, fail)
         IN  IF saved.err # "none"
             THEN Outcome(HttpError(500), saved.table, saved.seq, {})
             ELSE Outcome(SniffedJSON(201, "object", <<[id |-> saved.id, data |-> body]>>),
                          saved.table, saved.seq, {saved.id})

CreateClient(t, n, body, malformed, fail) ==
    IF malformed THEN Outcome(HttpError(400), t, n, {})
    ELSE IF body.name = "" THEN Outcome(HttpError(400), t, n, {})
    ELSE IF body.link = "" THEN Outcome(HttpError(400), t, n, {})
    ELSE IF body.imageUrl = "" THEN Outcome(HttpError(400), t, n, {})
    ELSE LET row == [name |-> body.name, link |-> body.link, imageUrl |-> body.imageUrl]
             saved == EntCreateSave("clients", t, n, row, fail)
         IN  IF saved.err # "none"
             THEN Outcome(HttpError(500), saved.table, saved.seq, {})
             ELSE Outcome(SniffedJSON(201, "object", <<[id |-> saved.id, data |-> body]>>),
                          saved.table, saved.seq, {saved.id})

GetClients(t, n, fail) ==
    LET all == EntAll(t, n, fail)
    IN  IF all.err # "none" THEN Outcome(HttpError(500), t, n, {})
        ELSE LET response ==
                     AppendAll(NilSlice,
                               [i \in 1..Len(all.rows) |->
                                   ClientResponse(all.rows[i].id, all.rows[i].row)])
             IN  Outcome(JSON(EncodeSlice(response), response.elems), t, n, {})

GetClientByID(t, n, idStr, fail) ==
    LET id == Atoi(idStr)
    IN  IF id.err THEN Outcome(HttpError(400), t, n, {})
        ELSE LET got == EntGet(t, id.val, fail)
             IN  IF got.err # "none"
                 THEN IF IsNotFound(got.err) THEN Outcome(HttpError(404), t, n, {})
                      ELSE Outcome(HttpError(500), t, n, {})
                 ELSE Outcome(JSON("object", <<ClientResponse(id.val, got.row)>>), t, n, {})

\* The fields UpdateClientHandler sets on the update builder.
ClientSets(body) ==
    [f \in {g \in {"name", "link", "imageUrl"} : body[g] # ""} |-> body[f]]

UpdateClient(t, n, idStr, body, malformed, fail) ==
    IF idStr = <<>> THEN Outcome(HttpError(400), t, n, {})
    ELSE LET id == Sscan(idStr).val     \* the error of Sscan is dropped
         IN  IF malformed THEN Outcome(HttpError(400), t, n, {})
             ELSE LET saved == EntUpdateOneSave("clients", t, id, ClientSets(body), fail)
                  IN  IF saved.err # "none" THEN Outcome(HttpError(500), saved.table, n, {})
                      ELSE Outcome(JSON("object", <<ClientResponse(saved.id, saved.row)>>),
                                   saved.table, n, {})

DeleteClient(t, n, idStr, fail) ==
    IF idStr = <<>> THEN Outcome(HttpError(400), t, n, {})
    ELSE LET id == Sscan(idStr)
         IN  IF id.err THEN Outcome(HttpError(400), t, n, {})
             ELSE LET done == EntDeleteOneExec(t, id.val, fail)
                  IN  IF done.err # "none" THEN Outcome(HttpError(500), done.table, n, {})
                      ELSE Outcome(SniffedJSON(200, "message", <<>>), done.table, n, {})

(***************************************************************************)
(* The Firestore client (unnamed/part_000).  A handler opens its own       *)
(* client with InitFirebase and closes it on return.  fail names what goes *)
(* wrong in a request: "init" (InitFirebase), "store" (the first call on   *)
(* the collection), "store2" (the second), or "none".                      *)
(***************************************************************************)
\* The id Firestore gives the k-th document added to a collection: fresh,
\* never one handed out before.
DocId(k) == <<"d", Digits[k + 1]>>

\* Collection(c).Add(ctx, v)
FsAdd(t, n, doc, fail) ==
    IF fail = "store" THEN [err |-> "other", table |-> t, seq |-> n]
    ELSE [err |-> "none", id |-> DocId(n + 1),
          table |-> (DocId(n + 1) :> doc) @@ t, seq |-> n + 1]

\* Collection(c).Doc(id).Get(ctx)
FsGet(t, id, fail) ==
    IF fail = "store" THEN [err |-> "other"]
    ELSE IF id \in DOMAIN t THEN [err |-> "none", doc |-> t[id]]
    ELSE [err |-> "notfound"]

\* The documents with ids DocId(i)..DocId(n), in id order.
RECURSIVE DocsFrom(_, _, _)
DocsFrom(t, i, n) ==
    IF i > n THEN <<>>
    ELSE (IF DocId(i) \in DOMAIN t THEN <<[id |-> DocId(i), doc |-> t[DocId(i)]]>> ELSE <<>>)
         \o DocsFrom(t, i + 1, n)

\* for { doc, err := iter.Next(); if err != nil { break }; ... }: the
\* documents handed over before Next returns an error (iterator.Done after
\* the last one, or a failure after `cut` of them).
FsDocuments(t, n, fail, cut) ==
    LET docs == DocsFrom(t, 1, n)
    IN  IF fail = "store" THEN SubSeq(docs, 1, cut) ELSE docs

\* A Set that has written the document when it reports its error (not the
\* program's).
FsSetWrittenOnError(t, id, doc, fail) ==
    [err |-> IF fail = "store2" THEN "other" ELSE "none", table |-> (id :> doc) @@ t]

\* Collection(c).Doc(id).Set(ctx, v): writes the document, creating it if absent.
FsSet(t, id, doc, fail) ==
    IF fail = "store2" THEN [err |-> "other", table |-> t]
    ELSE [err |-> "none", table |-> (id :> doc) @@ t]

\* A Delete that fails when there is no such document (not the program's).
FsDeleteStrict(t, id, fail) ==
    IF fail = "store" \/ id \notin DOMAIN t THEN [err |-> "other", table |-> t]
    ELSE [err |-> "none", table |-> [j \in DOMAIN t \ {id} |-> t[j]]]

\* A Delete that reports success and removes nothing (not the program's).
FsDeleteKeep(t, id, fail) == [err |-> "none", table |-> t]

\* Collection(c).Doc(id).Delete(ctx): no error when there is no such document.
FsDelete(t, id, fail) ==
    IF fail = "store" THEN [err |-> "other", table |-> t]
    ELSE [err |-> "none", table |-> [j \in DOMAIN t \ {id} |-> t[j]]]

\* ---- projects (unnamed/part_000) ----------------------------------------

\* json.Encode of a Project whose ID has been set to the document's id.
FsProjectEntry(id, p) ==
    [id |-> id,
     data |-> [name |-> p.name, imageUrl |-> p.imageUrl, link |-> p.link,
               description |-> p.description]]

FsCreateProject(t, n, project, malformed, fail) ==
    IF malformed THEN Outcome(HttpError(400), t, n, {})
    ELSE IF project.name = "" THEN Outcome(HttpError(400), t, n, {})
    ELSE IF fail = "init" THEN Outcome(HttpError(500), t, n, {})
    ELSE LET added == FsAdd(t, n, project, fail)
         IN  IF added.err # "none" THEN Outcome(HttpError(500), added.table, added.seq, {})
             ELSE Outcome(SniffedJSON(201, "object", <<FsProjectEntry(added.id, project)>>),
                          added.table, added.seq, {added.id})

FsGetProjects(t, n, fail, cut) ==
    IF fail = "init" THEN Outcome(HttpError(500), t, n, {})
    ELSE LET docs == FsDocuments(t, n, fail, cut)
             projects ==
                 AppendAll(NilSlice,
                           [i \in 1..Len(docs) |-> FsProjectEntry(docs[i].id, docs[i].doc)])
         IN  Outcome(JSON(EncodeSlice(projects), projects.elems), t, n, {})

FsGetProjectByID(t, n, projectID, fail) ==
    IF fail = "init" THEN Outcome(HttpError(500), t, n, {})
    ELSE LET got == FsGet(t, projectID, fail)
         IN  IF got.err # "none" THEN Outcome(HttpError(404), t, n, {})
             ELSE Outcome(JSON("object", <<FsProjectEntry(projectID, got.doc)>>), t, n, {})

\* A merge that copies every form value, empty or not (not the program's).
FsMergeProjectReplace(existing, form) ==
    [existing EXCEPT
        !.name = form.name, !.imageUrl = form.imageUrl,
        !.link = form.link, !.description = form.description]

\* existingProject after the non-empty form values have been copied in.
FsMergeProject(existing, form) ==
    [existing EXCEPT
        !.name = IF form.name # "" THEN form.name ELSE @,
        !.imageUrl = IF form.imageUrl # "" THEN form.imageUrl ELSE @,
        !.link = IF form.link # "" THEN form.link ELSE @,
        !.description = IF form.description # "" THEN form.description ELSE @]

FsUpdateProject(t, n, projectID, form, malformed, fail) ==
    IF malformed THEN Outcome(HttpError(400), t, n, {})
    ELSE IF fail = "init" THEN Outcome(HttpError(500), t, n, {})
    ELSE LET got == FsGet(t, projectID, fail)
         IN  IF got.err # "none" THEN Outcome(HttpError(404), t, n, {})
             ELSE LET set == FsSet(t, projectID, FsMergeProject(got.doc, form), fail)
                  IN  IF set.err # "none" THEN Outcome(HttpError(500), set.table, n, {})
                      ELSE Outcome(SniffedJSON(200, "message", <<>>), set.table, n, {})

FsDeleteProject(t, n, projectID, fail) ==
    IF fail = "init" THEN Outcome(HttpError(500), t, n, {})
    ELSE LET done == FsDelete(t, projectID, fail)
         IN  IF done.err # "none" THEN Outcome(HttpError(500), done.table, n, {})
             ELSE Outcome(SniffedJSON(200, "message", <<>>), done.table, n, {})

\* ---- packages (unnamed/part_000) ----------------------------------------

\* json.Encode of a Packages whose ID has been set to the document's id.
FsPackageEntry(id, p) ==
    [id |-> id,
     data |-> [name |-> p.name, link |-> p.link, description |-> p.description]]

FsCreatePackage(t, n, packages, malformed, fail) ==
    IF malformed THEN Outcome(HttpError(400), t, n, {})
    ELSE IF packages.name = "" THEN Outcome(HttpError(400), t, n, {})
    ELSE IF fail = "init" THEN Outcome(HttpError(500), t, n, {})
    ELSE LET added == FsAdd(t, n, packages, fail)
         IN  IF added.err # "none" THEN Outcome(HttpError(500), added.table, added.seq, {})
             ELSE Outcome(SniffedJSON(201, "object", <<FsPackageEntry(added.id, packages)>>),
                          added.table, added.seq, {added.id})

FsGetPackages(t, n, fail, cut) ==
    IF fail = "init" THEN Outcome(HttpError(500), t, n, {})
    ELSE LET docs == FsDocuments(t, n, fail, cut)
             packages ==
                 AppendAll(NilSlice,
                           [i \in 1..Len(docs) |-> FsPackageEntry(docs[i].id, docs[i].doc)])
         IN  Outcome(JSON(EncodeSlice(packages), packages.elems), t, n, {})

FsGetPackageByID(t, n, projectID, fail) ==
    IF fail = "init" THEN Outcome(HttpError(500), t, n, {})
    ELSE LET got == FsGet(t, projectID, fail)
         IN  IF got.err # "none" THEN Outcome(HttpError(404), t, n, {})
             ELSE Outcome(JSON("object", <<FsPackageEntry(projectID, got.doc)>>), t, n, {})

\* existingProject (a Packages) after the non-empty form values have been copied in.
FsMergePackage(existing, form) ==
    [existing EXCEPT
        !.name = IF form.name # "" THEN form.name ELSE @,
        !.link = IF form.link # "" THEN form.link ELSE @,
        !.description = IF form.description # "" THEN form.description ELSE @]

FsUpdatePackage(t, n, projectID, form, malformed, fail) ==
    IF malformed THEN Outcome(HttpError(400), t, n, {})
    ELSE IF fail = "init" THEN Outcome(HttpError(500), t, n, {})
    ELSE LET got == FsGet(t, projectID, fail)
         IN  IF got.err # "none" THEN Outcome(HttpError(404), t, n, {})
             ELSE LET set == FsSet(t, projectID, FsMergePackage(got.doc, form), fail)
                  IN  IF set.err # "none" THEN Outcome(HttpError(500), set.table, n, {})
                      ELSE Outcome(SniffedJSON(200, "message", <<>>), set.table, n, {})

FsDeletePackage(t, n, projectID, fail) ==
    IF fail = "init" THEN Outcome(HttpError(500), t, n, {})
    ELSE LET done == FsDelete(t, projectID, fail)
         IN  IF done.err # "none" THEN Outcome(HttpError(500), done.table, n, {})
             ELSE Outcome(SniffedJSON(200, "message", <<>>), done.table, n, {})

(***************************************************************************)
(* The package handlers of the earlier build (main.go): no stacks column,  *)
(* the ent entity itself is what the responses encode.                     *)
(***************************************************************************)
\* json.Encode of an *ent.Packages.
OldPackageEntry(id, row) ==
    [id |-> id,
     data |-> [name |-> row["name"], link |-> row["link"],
               description |-> row["description"]]]

OldCreatePackage(t, n, body, malformed, fail) ==
    IF malformed THEN Outcome(HttpError(400), t, n, {})
    ELSE IF body.name = "" THEN Outcome(HttpError(400), t, n, {})
    ELSE LET row == [name |-> body.name, link |-> body.link,
                     description |-> body.description]
             saved == EntCreateSave("packages_v1", t, n, row, fail)
         IN  IF saved.err # "none"
             THEN Outcome(HttpError(500), saved.table, saved.seq, {})
             ELSE Outcome(SniffedJSON(201, "object", <<OldPackageEntry(saved.id, row)>>),
                          saved.table, saved.seq, {saved.id})

\* Query().All hands back a slice that is never nil.
OldGetPackages(t, n, fail) ==
    LET all == EntAll(t, n, fail)
    IN  IF all.err # "none" THEN Outcome(HttpError(500), t, n, {})
        ELSE LET packages ==
                     Slice([i \in 1..Len(all.rows) |->
                               OldPackageEntry(all.rows[i].id, all.rows[i].row)])
             IN  Outcome(JSON(EncodeSlice(packages), packages.elems), t, n, {})

OldGetPackageByID(t, n, packageIDStr, fail) ==
    LET packageID == Sscan(packageIDStr)
    IN  IF packageID.err THEN Outcome(HttpError(400), t, n, {})
        ELSE LET got == EntGet(t, packageID.val, fail)
             IN  IF got.err # "none"
                 THEN IF IsNotFound(got.err) THEN Outcome(HttpError(404), t, n, {})
                      ELSE Outcome(HttpError(500), t, n, {})
                 ELSE Outcome(JSON("object", <<OldPackageEntry(packageID.val, got.row)>>),
                              t, n, {})

\* The fields UpdatePackageHandler of the earlier build sets: all three, always.
OldPackageSets(body) ==
    [f \in {"name", "link", "description"} |-> body[f]]

OldUpdatePackage(t, n, packageIDStr, body, malformed, fail) ==
    LET packageID == Sscan(packageIDStr)
    IN  IF packageID.err THEN Outcome(HttpError(400), t, n, {})
        ELSE IF malformed THEN Outcome(HttpError(400), t, n, {})
        ELSE IF body.name = "" THEN Outcome(HttpError(400), t, n, {})
        ELSE LET saved == EntUpdateOneSave("packages_v1", t, packageID.val,
                                           OldPackageSets(body), fail)
             IN  IF saved.err # "none"
                 THEN IF IsNotFound(saved.err) THEN Outcome(HttpError(404), saved.table, n, {})
                      ELSE Outcome(HttpError(500), saved.table, n, {})
                 ELSE Outcome(JSON("object", <<OldPackageEntry(saved.id, saved.row)>>),
                              saved.table, n, {})

OldDeletePackage(t, n, packageIDStr, fail) ==
    LET packageID == Sscan(packageIDStr)
    IN  IF packageID.err THEN Outcome(HttpError(400), t, n, {})
        ELSE LET done == EntDeleteOneExec(t, packageID.val, fail)
             IN  IF done.err # "none" THEN Outcome(HttpError(500), done.table, n, {})
                 ELSE Outcome(SniffedJSON(200, "message", <<>>), done.table, n, {})

(***************************************************************************)
(* Route tables, in the order main registers them.  A path is "coll"       *)
(* (/api/{res}), "new" (/api/{res}/new) or "item" (/api/{res}/{id}); the    *)
(* router takes the first route whose path and method both match.          *)
(***************************************************************************)
Route(path, methods, res, op) ==
    [path |-> path, methods |-> methods, res |-> res, op |-> op]

\* r.HandleFunc(...) of cmd/server/main.go.
ServerRoutes ==
    << Route("new",  {"POST", "OPTIONS"},   "projects", "create"),
       Route("coll", {"GET", "OPTIONS"},    "projects", "list"),
       Route("item", {"GET", "OPTIONS"},    "projects", "get"),
       Route("item", {"PUT", "OPTIONS"},    "projects", "update"),
       Route("item", {"DELETE", "OPTIONS"}, "projects", "delete"),
       Route("new",  {"POST", "OPTIONS"},   "packages", "create"),
       Route("coll", {"GET", "OPTIONS"},    "packages", "list"),
       Route("item", {"GET", "OPTIONS"},    "packages", "get"),
       Route("item", {"PUT", "OPTIONS"},    "packages", "update"),
       Route("item", {"DELETE", "OPTIONS"}, "packages", "delete") >>

\* r.HandleFunc(...) of unnamed/part_000.
FirebaseRoutes ==
    << Route("coll", {"GET"},    "projects", "list"),
       Route("item", {"GET"},    "projects", "get"),
       Route("new",  {"POST"},   "projects", "create"),
       Route("item", {"PUT"},    "projects", "update"),
       Route("item", {"DELETE"}, "projects", "delete"),
       Route("coll", {"GET"},    "packages", "list"),
       Route("item", {"GET"},    "packages", "get"),
       Route("new",  {"POST"},   "packages", "create"),
       Route("item", {"PUT"},    "packages", "update"),
       Route("item", {"DELETE"}, "packages", "delete") >>

\* r.HandleFunc(...) of main.go.
OldRoutes ==
    << Route("new",  {"POST"},   "projects", "create"),
       Route("coll", {"GET"},    "projects", "list"),
       Route("item", {"GET"},    "projects", "get"),
       Route("item", {"PUT"},    "projects", "update"),
       Route("item", {"DELETE"}, "projects", "delete"),
       Route("new",  {"POST"},   "packages", "create"),
       Route("coll", {"GET"},    "packages", "list"),
       Route("item", {"GET"},    "packages", "get"),
       Route("item", {"PUT"},    "packages", "update"),
       Route("item", {"DELETE"}, "packages", "delete") >>

Routes(v) ==
    IF v = "rel" THEN ServerRoutes ELSE IF v = "fs" THEN FirebaseRoutes ELSE OldRoutes

\* /api/{res}/new is also an /api/{res}/{id} with id "new".
PathMatches(pattern, path) ==
    pattern = path \/ (pattern = "item" /\ path = "new")

NoHandler == [res |-> "none", op |-> "none"]

\* mux.Router.Match: the handler of the first route that matches, if any.
Dispatch(routes, method, res, path) ==
    LET hits == {i \in DOMAIN routes :
                    /\ routes[i].res = res
                    /\ PathMatches(routes[i].path, path)
                    /\ method \in routes[i].methods}
    IN  IF hits = {} THEN NoHandler
        ELSE LET i == CHOOSE k \in hits : \A j \in hits : k <= j
             IN  [res |-> routes[i].res, op |-> routes[i].op]

(***************************************************************************)
(* Requests.  Bodies are the structs json.Decode leaves behind; "x" and    *)
(* "y" are two non-empty texts, "a" and "b" two names.                     *)
(***************************************************************************)
Names == {"a", "b"}

\* models.ProjectData
PB(n, i, l, d, st) ==
    [name |-> n, imageUrl |-> i, link |-> l, description |-> d, stacks |-> st]

\* models.PackageData
KB(n, l, d, st) == [name |-> n, link |-> l, description |-> d, stacks |-> st]

\* models.ClientData
CB(n, l, i) == [name |-> n, link |-> l, imageUrl |-> i]

\* Project of the document-store build
FB(id, n, i, l, d) ==
    [id |-> id, name |-> n, imageUrl |-> i, link |-> l, description |-> d]

\* Packages of the document-store build
GB(id, n, l, d) == [id |-> id, name |-> n, link |-> l, description |-> d]

\* The form values UpdateProjectHandler / UpdatePackageHandler read (document store).
F4(n, i, l, d) == [name |-> n, imageUrl |-> i, link |-> l, description |-> d]

F3(n, l, d) == [name |-> n, link |-> l, description |-> d]

\* Whether the run uses every request shape.
Rich == Cardinality(serving) = 1

ProjectCreateBodies ==
    IF Rich
    THEN {PB("a", "x", "x", "x", st) : st \in {NilSlice, Slice(<<>>), Slice(<<"go">>)}}
         \cup {PB("b", "x", "x", "x", Slice(<<"go">>)),
               PB("", "x", "x", "x", NilSlice), PB("a", "", "x", "x", NilSlice),
               PB("a", "x", "", "x", NilSlice), PB("a", "x", "x", "", NilSlice)}
    ELSE {PB("a", "x", "x", "x", NilSlice)}

ProjectUpdateBodies ==
    IF Rich
    THEN {PB(n, "", "", "", NilSlice) : n \in Names \cup {""}}
         \cup {PB("", "x", "", "", NilSlice), PB("", "", "x", "", NilSlice),
               PB("", "", "", "x", NilSlice), PB("", "", "", "", Slice(<<>>)),
               PB("", "", "", "", Slice(<<"go">>)), PB("b", "", "y", "", Slice(<<"go">>))}
    ELSE {PB("b", "", "", "", NilSlice)}

PackageCreateBodies ==
    IF Rich
    THEN {KB("a", "", "", NilSlice), KB("b", "", "", Slice(<<"go">>)),
               KB("a", "x", "x", Slice(<<>>)), KB("", "x", "x", NilSlice),
               KB(LongName, "", "", NilSlice)}
    ELSE {KB("a", "", "", NilSlice)}

PackageUpdateBodies ==
    IF Rich
    THEN {KB(n, "", "", NilSlice) : n \in Names \cup {"", LongName}}
         \cup {KB("", "x", "", NilSlice), KB("", "", "x", NilSlice),
               KB("", "", "", Slice(<<"go">>)), KB("a", "x", "", Slice(<<"go">>))}
    ELSE {KB("b", "", "", NilSlice)}

ClientCreateBodies ==
    IF Rich
    THEN {CB(n, "x", "x") : n \in Names}
         \cup {CB("", "x", "x"), CB("a", "", "x"), CB("a", "x", ""),
               CB(LongName, "x", "x")}
    ELSE {CB("a", "x", "x")}

ClientUpdateBodies ==
    IF Rich
    THEN {CB(n, "", "") : n \in Names \cup {"", LongName}}
         \cup {CB("", "y", ""), CB("", "", "y"), CB("b", "y", "")}
    ELSE {CB("b", "", "")}

FsProjectCreateBodies ==
    IF Rich
    THEN {FB("", "a", "x", "x", "x"), FB("q", "a", "", "x", "x"),
          FB("", "", "x", "x", "x")}
    ELSE {FB("", "a", "x", "x", "x")}

FsProjectForms ==
    IF Rich
    THEN {F4("b", "", "", ""), F4("", "", "", ""), F4("", "", "y", "")}
    ELSE {F4("b", "", "", "")}

FsPackageCreateBodies ==
    IF Rich
    THEN {GB("", "a", "x", "x"), GB("q", "a", "", ""), GB("", "", "x", "x")}
    ELSE {GB("", "a", "x", "x")}

FsPackageForms ==
    IF Rich
    THEN {F3("b", "", ""), F3("", "", ""), F3("", "y", "")}
    ELSE {F3("b", "", "")}

\* The bodies the earlier package handlers decode.
OldPackageCreateBodies == {F3("a", "x", "x"), F3("b", "", ""), F3("", "x", "x")}

OldPackageUpdateBodies ==
    {F3("b", "", ""), F3("a", "y", ""), F3("", "y", ""), F3("", "", "")}

\* The {id} segment of a relational request: the ids of the run ...
RelIds == {<<Digits[i + 1]>> : i \in 1..MaxRecords}

\* ... and one more; with every request shape also a word, and a number
\* followed by a letter.
RelOtherIds ==
    IF Rich THEN {<<Digits[MaxRecords + 2]>>, <<"a">>, <<"1", "a">>}
    ELSE {<<Digits[MaxRecords + 2]>>}

\* The {id} segment of a document-store request: an id the collection has
\* handed out ...
FsIds(n) == {DocId(k) : k \in 1..n}

\* ... and one it never has.
FsOtherIds == {<<"z">>}

\* What a POST carries: a body, or a malformed one, or a body on a failing store.
CreateInputs(bodies, canon, zero, fails) ==
    {[body |-> b, malformed |-> FALSE, fail |-> "none"] : b \in bodies}
    \cup {[body |-> zero, malformed |-> TRUE, fail |-> "none"]}
    \cup {[body |-> canon, malformed |-> FALSE, fail |-> f] : f \in fails}

\* What a GET or DELETE by id carries.
ByIdInputs(ids, one, fails) ==
    {[id |-> i, fail |-> "none"] : i \in ids}
    \cup {[id |-> one, fail |-> f] : f \in fails}

\* What a PUT carries: every body on the ids of the run, one body elsewhere.
UpdateInputs(ids, others, one, bodies, canon, zero, fails) ==
    {[id |-> i, body |-> b, malformed |-> FALSE, fail |-> "none"] : i \in ids, b \in bodies}
    \cup {[id |-> i, body |-> canon, malformed |-> FALSE, fail |-> "none"] : i \in others}
    \cup {[id |-> one, body |-> zero, malformed |-> TRUE, fail |-> "none"]}
    \cup {[id |-> one, body |-> canon, malformed |-> FALSE, fail |-> f] : f \in fails}

(***************************************************************************)
(* Actions: one per handler.                                               *)
(***************************************************************************)
\* A server whose DELETE takes the id out of every table (not the program's).
HandleCascade(rq, key, out) ==
    /\ rq.res \in serving
    /\ out.seq > seq[rq.res] => Allocated < MaxRecords
    /\ req' = rq
    /\ resp' = out.resp
    /\ before' = store
    /\ store' = [r \in AllResources |->
                    IF r = rq.res THEN out.table
                    ELSE IF rq.op = "delete" /\ out.resp.status = 200
                    THEN [j \in DOMAIN store[r] \ {key} |-> store[r][j]]
                    ELSE store[r]]
    /\ seq' = [seq EXCEPT ![rq.res] = out.seq]
    /\ created' = [created EXCEPT ![rq.res] = @ \cup out.made]
    /\ deleted' = [deleted EXCEPT ![rq.res] =
                      IF rq.op = "delete" /\ out.resp.status = 200
                      THEN @ \cup {key} ELSE @]
    /\ UNCHANGED <<variant, serving, mainPC, Client, conns, inflight>>

\* The request is handled: its outcome becomes the state.  `key` is the id
\* a DELETE names, as the store knows it.
Handle(rq, key, out) ==
    /\ rq.res \in serving
    /\ out.seq > seq[rq.res] => Allocated < MaxRecords
    /\ req' = rq
    /\ resp' = out.resp
    /\ before' = store
    /\ store' = [store EXCEPT ![rq.res] = out.table]
    /\ seq' = [seq EXCEPT ![rq.res] = out.seq]
    /\ created' = [created EXCEPT ![rq.res] = @ \cup out.made]
    /\ deleted' = [deleted EXCEPT ![rq.res] =
                      IF rq.op = "delete" /\ out.resp.status = 200
                      THEN @ \cup {key} ELSE @]
    /\ UNCHANGED <<variant, serving, mainPC, Client, conns, inflight>>

CreateProjectHandler(in) ==
    /\ variant = "rel"
    /\ Handle(Request("create", "projects", NoPath, in.body, in.malformed, in.fail, 0), 0,
              CreateProject(store["projects"], seq["projects"], in.body, in.malformed,
                            in.fail = "store"))

GetProjectsHandler(fail) ==
    /\ variant = "rel"
    /\ Handle(Request("list", "projects", NoPath, NoBody, FALSE, fail, 0), 0,
              GetProjects(store["projects"], seq["projects"], fail = "store"))

GetProjectByIDHandler(in) ==
    /\ variant = "rel"
    /\ Handle(Request("get", "projects", in.id, NoBody, FALSE, in.fail, 0), 0,
              GetProjectByID(store["projects"], seq["projects"], in.id, in.fail = "store"))

UpdateProjectHandler(in) ==
    /\ variant = "rel"
    /\ Handle(Request("update", "projects", in.id, in.body, in.malformed, in.fail, 0), 0,
              UpdateProject(store["projects"], seq["projects"], in.id, in.body,
                            in.malformed, in.fail = "store"))

DeleteProjectHandler(in) ==
    /\ variant = "rel"
    /\ Handle(Request("delete", "projects", in.id, NoBody, FALSE, in.fail, 0),
              Sscan(in.id).val,
              DeleteProject(store["projects"], seq["projects"], in.id, in.fail = "store"))

CreatePackageHandler(in) ==
    /\ variant = "rel"
    /\ Handle(Request("create", "packages", NoPath, in.body, in.malformed, in.fail, 0), 0,
              CreatePackage(store["packages"], seq["packages"], in.body, in.malformed,
                            in.fail = "store"))

GetPackagesHandler(fail) ==
    /\ variant = "rel"
    /\ Handle(Request("list", "packages", NoPath, NoBody, FALSE, fail, 0), 0,
              GetPackages(store["packages"], seq["packages"], fail = "store"))

GetPackageByIDHandler(in) ==
    /\ variant = "rel"
    /\ Handle(Request("get", "packages", in.id, NoBody, FALSE, in.fail, 0), 0,
              GetPackageByID(store["packages"], seq["packages"], in.id, in.fail = "store"))

UpdatePackageHandler(in) ==
    /\ variant = "rel"
    /\ Handle(Request("update", "packages", in.id, in.body, in.malformed, in.fail, 0), 0,
              UpdatePackage(store["packages"], seq["packages"], in.id, in.body,
                            in.malformed, in.fail = "store"))

DeletePackageHandler(in) ==
    /\ variant = "rel"
    /\ Handle(Request("delete", "packages", in.id, NoBody, FALSE, in.fail, 0),
              Sscan(in.id).val,
              DeletePackage(store["packages"], seq["packages"], in.id, in.fail = "store"))

CreateClientHandler(in) ==
    /\ variant = "rel"
    /\ Handle(Request("create", "clients", NoPath, in.body, in.malformed, in.fail, 0), 0,
              CreateClient(store["clients"], seq["clients"], in.body, in.malformed,
                           in.fail = "store"))

GetClientsHandler(fail) ==
    /\ variant = "rel"
    /\ Handle(Request("list", "clients", NoPath, NoBody, FALSE, fail, 0), 0,
              GetClients(store["clients"], seq["clients"], fail = "store"))

GetClientByIDHandler(in) ==
    /\ variant = "rel"
    /\ Handle(Request("get", "clients", in.id, NoBody, FALSE, in.fail, 0), 0,
              GetClientByID(store["clients"], seq["clients"], in.id, in.fail = "store"))

UpdateClientHandler(in) ==
    /\ variant = "rel"
    /\ Handle(Request("update", "clients", in.id, in.body, in.malformed, in.fail, 0), 0,
              UpdateClient(store["clients"], seq["clients"], in.id, in.body,
                           in.malformed, in.fail = "store"))

DeleteClientHandler(in) ==
    /\ variant = "rel"
    /\ Handle(Request("delete", "clients", in.id, NoBody, FALSE, in.fail, 0),
              Sscan(in.id).val,
              DeleteClient(store["clients"], seq["clients"], in.id, in.fail = "store"))

FsCreateProjectHandler(in) ==
    /\ variant = "fs"
    /\ Handle(Request("create", "projects", NoPath, in.body, in.malformed, in.fail, 0), NoPath,
              FsCreateProject(store["projects"], seq["projects"], in.body, in.malformed,
                              in.fail))

FsGetProjectsHandler(fail, cut) ==
    /\ variant = "fs"
    /\ Handle(Request("list", "projects", NoPath, NoBody, FALSE, fail, cut), NoPath,
              FsGetProjects(store["projects"], seq["projects"], fail, cut))

FsGetProjectByIDHandler(in) ==
    /\ variant = "fs"
    /\ Handle(Request("get", "projects", in.id, NoBody, FALSE, in.fail, 0), NoPath,
              FsGetProjectByID(store["projects"], seq["projects"], in.id, in.fail))

FsUpdateProjectHandler(in) ==
    /\ variant = "fs"
    /\ Handle(Request("update", "projects", in.id, in.body, in.malformed, in.fail, 0), NoPath,
              FsUpdateProject(store["projects"], seq["projects"], in.id, in.body,
                              in.malformed, in.fail))

FsDeleteProjectHandler(in) ==
    /\ variant = "fs"
    /\ Handle(Request("delete", "projects", in.id, NoBody, FALSE, in.fail, 0), in.id,
              FsDeleteProject(store["projects"], seq["projects"], in.id, in.fail))

FsCreatePackageHandler(in) ==
    /\ variant = "fs"
    /\ Handle(Request("create", "packages", NoPath, in.body, in.malformed, in.fail, 0), NoPath,
              FsCreatePackage(store["packages"], seq["packages"], in.body, in.malformed,
                              in.fail))

FsGetPackagesHandler(fail, cut) ==
    /\ variant = "fs"
    /\ Handle(Request("list", "packages", NoPath, NoBody, FALSE, fail, cut), NoPath,
              FsGetPackages(store["packages"], seq["packages"], fail, cut))

FsGetPackageByIDHandler(in) ==
    /\ variant = "fs"
    /\ Handle(Request("get", "packages", in.id, NoBody, FALSE, in.fail, 0), NoPath,
              FsGetPackageByID(store["packages"], seq["packages"], in.id, in.fail))

FsUpdatePackageHandler(in) ==
    /\ variant = "fs"
    /\ Handle(Request("update", "packages", in.id, in.body, in.malformed, in.fail, 0), NoPath,
              FsUpdatePackage(store["packages"], seq["packages"], in.id, in.body,
                              in.malformed, in.fail))

FsDeletePackageHandler(in) ==
    /\ variant = "fs"
    /\ Handle(Request("delete", "packages", in.id, NoBody, FALSE, in.fail, 0), in.id,
              FsDeletePackage(store["packages"], seq["packages"], in.id, in.fail))

OldCreatePackageHandler(in) ==
    /\ variant = "old"
    /\ Handle(Request("create", "packages", NoPath, in.body, in.malformed, in.fail, 0), 0,
              OldCreatePackage(store["packages"], seq["packages"], in.body, in.malformed,
                               in.fail = "store"))

OldGetPackagesHandler(fail) ==
    /\ variant = "old"
    /\ Handle(Request("list", "packages", NoPath, NoBody, FALSE, fail, 0), 0,
              OldGetPackages(store["packages"], seq["packages"], fail = "store"))

OldGetPackageByIDHandler(in) ==
    /\ variant = "old"
    /\ Handle(Request("get", "packages", in.id, NoBody, FALSE, in.fail, 0), 0,
              OldGetPackageByID(store["packages"], seq["packages"], in.id, in.fail = "store"))

OldUpdatePackageHandler(in) ==
    /\ variant = "old"
    /\ Handle(Request("update", "packages", in.id, in.body, in.malformed, in.fail, 0), 0,
              OldUpdatePackage(store["packages"], seq["packages"], in.id, in.body,
                               in.malformed, in.fail = "store"))

OldDeletePackageHandler(in) ==
    /\ variant = "old"
    /\ Handle(Request("delete", "packages", in.id, NoBody, FALSE, in.fail, 0),
              Sscan(in.id).val,
              OldDeletePackage(store["packages"], seq["packages"], in.id, in.fail = "store"))

\* How many documents a failing iteration may have handed over.
Cuts(fail, t) ==
    IF fail = "store" /\ Cardinality(DOMAIN t) > 0
    THEN 0..(Cardinality(DOMAIN t) - 1) ELSE {0}

RelNext ==
    \/ \E in \in CreateInputs(ProjectCreateBodies, PB("a", "x", "x", "x", NilSlice),
                              PB("", "", "", "", NilSlice), {"store"}) :
           CreateProjectHandler(in)
    \/ \E fail \in {"none", "store"} : GetProjectsHandler(fail)
    \/ \E in \in ByIdInputs(RelIds \cup RelOtherIds, <<"1">>, {"store"}) : GetProjectByIDHandler(in)
    \/ \E in \in UpdateInputs(RelIds, RelOtherIds, <<"1">>, ProjectUpdateBodies,
                              PB("b", "", "", "", NilSlice),
                              PB("", "", "", "", NilSlice), {"store"}) :
           UpdateProjectHandler(in)
    \/ \E in \in ByIdInputs(RelIds \cup RelOtherIds, <<"1">>, {"store"}) : DeleteProjectHandler(in)
    \/ \E in \in CreateInputs(PackageCreateBodies, KB("a", "", "", NilSlice),
                              KB("", "", "", NilSlice), {"store"}) :
           CreatePackageHandler(in)
    \/ \E fail \in {"none", "store"} : GetPackagesHandler(fail)
    \/ \E in \in ByIdInputs(RelIds \cup RelOtherIds, <<"1">>, {"store"}) : GetPackageByIDHandler(in)
    \/ \E in \in UpdateInputs(RelIds, RelOtherIds, <<"1">>, PackageUpdateBodies,
                              KB("b", "", "", NilSlice),
                              KB("", "", "", NilSlice), {"store"}) :
           UpdatePackageHandler(in)
    \/ \E in \in ByIdInputs(RelIds \cup RelOtherIds, <<"1">>, {"store"}) : DeletePackageHandler(in)
    \/ \E in \in CreateInputs(ClientCreateBodies, CB("a", "x", "x"),
                              CB("", "", ""), {"store"}) :
           CreateClientHandler(in)
    \/ \E fail \in {"none", "store"} : GetClientsHandler(fail)
    \/ \E in \in ByIdInputs(RelIds \cup RelOtherIds, <<"1">>, {"store"}) : GetClientByIDHandler(in)
    \/ \E in \in UpdateInputs(RelIds, RelOtherIds, <<"1">>, ClientUpdateBodies,
                              CB("b", "", ""), CB("", "", ""), {"store"}) :
           UpdateClientHandler(in)
    \/ \E in \in ByIdInputs(RelIds \cup RelOtherIds, <<"1">>, {"store"}) : DeleteClientHandler(in)

FsNext ==
    \/ \E in \in CreateInputs(FsProjectCreateBodies, FB("", "a", "x", "x", "x"),
                              FB("", "", "", "", ""), {"init", "store"}) :
           FsCreateProjectHandler(in)
    \/ \E fail \in {"none", "init", "store"} :
           \E cut \in Cuts(fail, store["projects"]) : FsGetProjectsHandler(fail, cut)
    \/ \E in \in ByIdInputs(FsIds(seq["projects"]) \cup FsOtherIds, DocId(1), {"init", "store"}) :
           FsGetProjectByIDHandler(in)
    \/ \E in \in UpdateInputs(FsIds(seq["projects"]), FsOtherIds, DocId(1), FsProjectForms,
                              F4("b", "", "", ""), F4("", "", "", ""),
                              {"init", "store", "store2"}) :
           FsUpdateProjectHandler(in)
    \/ \E in \in ByIdInputs(FsIds(seq["projects"]) \cup FsOtherIds, DocId(1), {"init", "store"}) :
           FsDeleteProjectHandler(in)
    \/ \E in \in CreateInputs(FsPackageCreateBodies, GB("", "a", "x", "x"),
                              GB("", "", "", ""), {"init", "store"}) :
           FsCreatePackageHandler(in)
    \/ \E fail \in {"none", "init", "store"} :
           \E cut \in Cuts(fail, store["packages"]) : FsGetPackagesHandler(fail, cut)
    \/ \E in \in ByIdInputs(FsIds(seq["packages"]) \cup FsOtherIds, DocId(1), {"init", "store"}) :
           FsGetPackageByIDHandler(in)
    \/ \E in \in UpdateInputs(FsIds(seq["packages"]), FsOtherIds, DocId(1), FsPackageForms,
                              F3("b", "", ""), F3("", "", ""),
                              {"init", "store", "store2"}) :
           FsUpdatePackageHandler(in)
    \/ \E in \in ByIdInputs(FsIds(seq["packages"]) \cup FsOtherIds, DocId(1), {"init", "store"}) :
           FsDeletePackageHandler(in)

OldNext ==
    \/ \E in \in CreateInputs(OldPackageCreateBodies, F3("a", "x", "x"), F3("", "", ""),
                              {"store"}) :
           OldCreatePackageHandler(in)
    \/ \E fail \in {"none", "store"} : OldGetPackagesHandler(fail)
    \/ \E in \in ByIdInputs(RelIds \cup RelOtherIds, <<"1">>, {"store"}) :
           OldGetPackageByIDHandler(in)
    \/ \E in \in UpdateInputs(RelIds, RelOtherIds, <<"1">>, OldPackageUpdateBodies,
                              F3("b", "", ""), F3("", "", ""), {"store"}) :
           OldUpdatePackageHandler(in)
    \/ \E in \in ByIdInputs(RelIds \cup RelOtherIds, <<"1">>, {"store"}) :
           OldDeletePackageHandler(in)

Next == RelNext \/ FsNext \/ OldNext

Spec == Init /\ [][Next]_vars

(***************************************************************************)
(* The life of the process: main from its first statement on, and requests *)
(* on the routes of one resource handled by two goroutines at once.  A handler is *)
(* followed call by call on the store, so that the calls of two requests   *)
(* interleave.  The relational handlers make one call on the store; the    *)
(* document-store handlers open a client, make one or two calls and close  *)
(* the client on return.                                                   *)
(***************************************************************************)
ServerVariants == {"rel", "fs"}

ServerInit ==
    /\ variant \in ServerVariants
    /\ serving \in {{r} : r \in Resources(variant)}
    /\ store = [r \in AllResources |-> EmptyTable]
    /\ seq = [r \in AllResources |-> 0]
    /\ req = [op |-> "none", res |-> "none", id |-> NoPath, body |-> NoBody,
              malformed |-> FALSE, fail |-> "none", cut |-> 0]
    /\ resp = [status |-> 0, ctype |-> "", enc |-> "none", body |-> <<>>]
    /\ before = [r \in AllResources |-> EmptyTable]
    /\ created = [r \in AllResources |-> {}]
    /\ deleted = [r \in AllResources |-> {}]
    /\ mainPC = "start"
    /\ Client = "nil"
    /\ conns = {}
    /\ inflight = [w \in Workers |-> Idle]

\* What the handler actions above record, untouched here.
LastRequest == <<variant, serving, req, resp, before, created>>

\* log.Fatalf: the process is gone, and its connections with it.
Fatal ==
    /\ mainPC' = "exited"
    /\ conns' = {}

\* database.InitDB as main calls it.  It fails when DATABASE_URL is not
\* set, when ent.Open fails or when Schema.Create fails, and only when all
\* three went well does it set database.Client.
InitDBOutcomes == {"ok", "noenv", "open", "schema"}

MainInitDB(outcome) ==
    /\ variant = "rel"
    /\ mainPC = "start"
    /\ IF outcome = "ok"
       THEN /\ Client' = "open"
            /\ conns' = conns \cup {"main"}
            /\ mainPC' = "routes"
       ELSE /\ Fatal
            /\ UNCHANGED Client
    /\ UNCHANGED <<LastRequest, deleted, store, seq, inflight>>

\* main of the document-store build up to its routes: godotenv.Load, fatal
\* when it fails.  The store is not touched.
MainLoadEnv(ok) ==
    /\ variant = "fs"
    /\ mainPC = "start"
    /\ IF ok THEN mainPC' = "routes" /\ UNCHANGED conns ELSE Fatal
    /\ UNCHANGED <<LastRequest, deleted, store, seq, Client, inflight>>

\* http.ListenAndServe: the server is up, or the port could not be had.
MainListenAndServe(ok) ==
    /\ mainPC = "routes"
    /\ IF ok THEN mainPC' = "listening" /\ UNCHANGED conns ELSE Fatal
    /\ UNCHANGED <<LastRequest, deleted, store, seq, Client, inflight>>

\* The resource whose routes the requests address.
ServerRes == CHOOSE r \in serving : TRUE

\* The body of a POST /api/{res}/new.
ServerCreateBody ==
    IF variant = "fs"
    THEN IF ServerRes = "projects" THEN FB("", "a", "x", "x", "x") ELSE GB("", "a", "x", "x")
    ELSE IF ServerRes = "projects" THEN PB("a", "x", "x", "x", Slice(<<>>))
    ELSE IF ServerRes = "packages" THEN KB("a", "x", "x", Slice(<<>>))
    ELSE CB("a", "x", "x")

\* The body or form of a PUT /api/{res}/{id} that supplies one field.
ServerUpdateBody(field) ==
    LET n == IF field = "name" THEN "b" ELSE ""
        l == IF field = "link" THEN "y" ELSE ""
    IN  IF variant = "fs"
        THEN IF ServerRes = "projects" THEN F4(n, "", l, "") ELSE F3(n, l, "")
        ELSE IF ServerRes = "projects" THEN PB(n, "", l, "", NilSlice)
        ELSE IF ServerRes = "packages" THEN KB(n, l, "", NilSlice)
        ELSE CB(n, l, "")

\* The {id} of the PUTs and DELETEs: the first record, once a create has
\* been answered with its id.
ServerTarget == IF variant = "fs" THEN DocId(1) ELSE <<"1">>

ServerTargetKey == IF variant = "fs" THEN DocId(1) ELSE 1

\* Creates that have been accepted and have not reached the store yet.
PendingCreates ==
    {w \in Workers : inflight[w].op = "create" /\ inflight[w].pc \in {"accepted", "opened"}}

\* net/http hands a request to a goroutine: only a listening server does.
Accept(w, op, field) ==
    /\ mainPC = "listening"
    /\ inflight[w].pc = "idle"
    /\ IF op = "create"
       THEN seq[ServerRes] + Cardinality(PendingCreates) < MaxRecords
       ELSE seq[ServerRes] >= 1
    /\ inflight' = [inflight EXCEPT ![w] = [Idle EXCEPT !.pc = "accepted", !.op = op,
                                                        !.field = field]]
    /\ UNCHANGED <<LastRequest, deleted, store, seq, mainPC, Client, conns>>

\* The handler of cmd/server/main.go or internal/handlers for the request.
RelHandler(op, field, t, n) ==
    LET r == ServerRes
        body == IF op = "create" THEN ServerCreateBody ELSE ServerUpdateBody(field)
    IN  IF op = "create"
        THEN IF r = "projects" THEN CreateProject(t, n, body, FALSE, FALSE)
             ELSE IF r = "packages" THEN CreatePackage(t, n, body, FALSE, FALSE)
             ELSE CreateClient(t, n, body, FALSE, FALSE)
        ELSE IF op = "update"
        THEN IF r = "projects" THEN UpdateProject(t, n, ServerTarget, body, FALSE, FALSE)
             ELSE IF r = "packages" THEN UpdatePackage(t, n, ServerTarget, body, FALSE, FALSE)
             ELSE UpdateClient(t, n, ServerTarget, body, FALSE, FALSE)
        ELSE IF r = "projects" THEN DeleteProject(t, n, ServerTarget, FALSE)
             ELSE IF r = "packages" THEN DeletePackage(t, n, ServerTarget, FALSE)
             ELSE DeleteClient(t, n, ServerTarget, FALSE)

\* The ids whose DELETE has been answered 200, with this answer counted.
Deleted(op, status) ==
    IF op = "delete" /\ status = 200
    THEN [deleted EXCEPT ![ServerRes] = @ \cup {ServerTargetKey}]
    ELSE deleted

\* A relational handler: one call on database.Client.  With
\* database.Client nil the call panics and net/http drops the connection.
RelServe(w) ==
    /\ variant = "rel"
    /\ inflight[w].pc = "accepted"
    /\ LET t == store[ServerRes]
           n == seq[ServerRes]
           out == IF Client = "nil" THEN Outcome(NoResponse, t, n, {})
                  ELSE RelHandler(inflight[w].op, inflight[w].field, t, n)
       IN  /\ store' = [store EXCEPT ![ServerRes] = out.table]
           /\ seq' = [seq EXCEPT ![ServerRes] = out.seq]
           /\ deleted' = Deleted(inflight[w].op, out.resp.status)
           /\ inflight' = [inflight EXCEPT ![w].pc = "done", ![w].status = out.resp.status]
    /\ UNCHANGED <<LastRequest, mainPC, Client, conns>>

\* client, err := InitFirebase(); on an error the handler answers 500, and
\* otherwise it holds a client of its own until it returns.
FsInitFirebase(w, ok) ==
    /\ variant = "fs"
    /\ inflight[w].pc = "accepted"
    /\ IF ok
       THEN /\ conns' = conns \cup {w}
            /\ inflight' = [inflight EXCEPT ![w].pc = "opened"]
       ELSE /\ UNCHANGED conns
            /\ inflight' = [inflight EXCEPT ![w].pc = "done", ![w].status = 500]
    /\ UNCHANGED <<LastRequest, deleted, store, seq, mainPC, Client>>

\* A create handler from Add on: the document is added, 201 is written and
\* the deferred client.Close() runs.
FsAddDoc(w) ==
    /\ variant = "fs"
    /\ inflight[w].pc = "opened"
    /\ inflight[w].op = "create"
    /\ LET added == FsAdd(store[ServerRes], seq[ServerRes], ServerCreateBody, "none")
       IN  /\ store' = [store EXCEPT ![ServerRes] = added.table]
           /\ seq' = [seq EXCEPT ![ServerRes] = added.seq]
    /\ conns' = conns \ {w}
    /\ inflight' = [inflight EXCEPT ![w].pc = "done", ![w].status = 201]
    /\ UNCHANGED <<LastRequest, deleted, mainPC, Client>>

\* existingProject with the form values of the request copied in.
FsMerged(doc, field) ==
    IF ServerRes = "projects" THEN FsMergeProject(doc, ServerUpdateBody(field))
    ELSE FsMergePackage(doc, ServerUpdateBody(field))

\* An update handler that returns on a missing document without closing
\* its client (not the program's).
FsGetDocLeak(w) ==
    /\ variant = "fs"
    /\ inflight[w].pc = "opened"
    /\ inflight[w].op = "update"
    /\ LET got == FsGet(store[ServerRes], ServerTarget, "none")
       IN  IF got.err # "none"
           THEN inflight' = [inflight EXCEPT ![w].pc = "done", ![w].status = 404]
           ELSE inflight' = [inflight EXCEPT
                                ![w].pc = "got",
                                ![w].local = <<FsMerged(got.doc, inflight[w].field)>>]
    /\ UNCHANGED <<LastRequest, deleted, store, seq, mainPC, Client, conns>>

\* An update handler from Get up to Set: the document is read and the form
\* values are copied into the handler's own existingProject; when there is
\* no such document 404 is written and the client is closed.
FsGetDoc(w) ==
    /\ variant = "fs"
    /\ inflight[w].pc = "opened"
    /\ inflight[w].op = "update"
    /\ LET got == FsGet(store[ServerRes], ServerTarget, "none")
       IN  IF got.err # "none"
           THEN /\ conns' = conns \ {w}
                /\ inflight' = [inflight EXCEPT ![w].pc = "done", ![w].status = 404]
           ELSE /\ UNCHANGED conns
                /\ inflight' = [inflight EXCEPT
                                   ![w].pc = "got",
                                   ![w].local = <<FsMerged(got.doc, inflight[w].field)>>]
    /\ UNCHANGED <<LastRequest, deleted, store, seq, mainPC, Client>>

\* An update handler from Set on: existingProject is written over the
\* document, 200 is written and the client is closed.
FsSetDoc(w) ==
    /\ variant = "fs"
    /\ inflight[w].pc = "got"
    /\ LET set == FsSet(store[ServerRes], ServerTarget, inflight[w].local[1], "none")
       IN  store' = [store EXCEPT ![ServerRes] = set.table]
    /\ conns' = conns \ {w}
    /\ inflight' = [inflight EXCEPT ![w].pc = "done", ![w].status = 200]
    /\ UNCHANGED <<LastRequest, deleted, seq, mainPC, Client>>

\* A delete handler from Delete on: the document is deleted, 200 is written
\* and the client is closed.
FsDeleteDoc(w) ==
    /\ variant = "fs"
    /\ inflight[w].pc = "opened"
    /\ inflight[w].op = "delete"
    /\ LET done == FsDelete(store[ServerRes], ServerTarget, "none")
       IN  store' = [store EXCEPT ![ServerRes] = done.table]
    /\ deleted' = Deleted("delete", 200)
    /\ conns' = conns \ {w}
    /\ inflight' = [inflight EXCEPT ![w].pc = "done", ![w].status = 200]
    /\ UNCHANGED <<LastRequest, seq, mainPC, Client>>

\* The handler has returned; the goroutine is free for the next request.
Respond(w) ==
    /\ inflight[w].pc = "done"
    /\ inflight' = [inflight EXCEPT ![w] = Idle]
    /\ UNCHANGED <<LastRequest, deleted, store, seq, mainPC, Client, conns>>

ServerNext ==
    \/ \E outcome \in InitDBOutcomes : MainInitDB(outcome)
    \/ \E ok \in BOOLEAN : MainLoadEnv(ok)
    \/ \E ok \in BOOLEAN : MainListenAndServe(ok)
    \/ \E w \in Workers : \E op \in {"create", "delete"} : Accept(w, op, "none")
    \/ \E w \in Workers : \E field \in {"name", "link"} : Accept(w, "update", field)
    \/ \E w \in Workers : RelServe(w)
    \/ \E w \in Workers : \E ok \in BOOLEAN : FsInitFirebase(w, ok)
    \/ \E w \in Workers : FsAddDoc(w)
    \/ \E w \in Workers : FsGetDoc(w)
    \/ \E w \in Workers : FsSetDoc(w)
    \/ \E w \in Workers : FsDeleteDoc(w)
    \/ \E w \in Workers : Respond(w)

ServerSpec == ServerInit /\ [][ServerNext]_vars

(***************************************************************************)
(* Properties.  `req` and `resp` are the last request and its answer,      *)
(* `before` the store that request met, `store` the store it left.         *)
(***************************************************************************)
\* The string fields of a record, per models.ProjectData, PackageData, ClientData.
StringFields(res) ==
    IF res = "projects" THEN {"name", "imageUrl", "link", "description"}
    ELSE IF res = "packages" THEN {"name", "link", "description"}
    ELSE {"name", "link", "imageUrl"}

\* The fields a create must not leave empty.
RequiredFields(res) ==
    IF res = "projects" THEN {"name", "imageUrl", "link", "description"}
    ELSE IF res = "packages" THEN {"name"}
    ELSE {"name", "link", "imageUrl"}

\* The resources whose relational rows carry a stacks column.
HasStacks(res) == variant = "rel" /\ res \in {"projects", "packages"}

\* Whether the {id} segment of the last request names an id of the store.
WellFormedId == IF variant = "fs" THEN req.id # NoPath ELSE ~Atoi(req.id).err

\* The id that segment names.
TargetId == IF variant = "fs" THEN req.id ELSE Atoi(req.id).val

\* The {id} segment that names the id.
PathOf(id) == IF variant = "fs" THEN id ELSE <<Digits[id + 1]>>

\* What GET /{res}/{id} answers on the tables tbl, the store being reachable.
GetAnswer(tbl, sq, res, id) ==
    IF variant = "rel"
    THEN IF res = "projects" THEN GetProjectByID(tbl[res], sq[res], PathOf(id), FALSE).resp
         ELSE IF res = "packages"
         THEN GetPackageByID(tbl[res], sq[res], PathOf(id), FALSE).resp
         ELSE GetClientByID(tbl[res], sq[res], PathOf(id), FALSE).resp
    ELSE IF variant = "old"
    THEN OldGetPackageByID(tbl[res], sq[res], PathOf(id), FALSE).resp
    ELSE IF res = "projects" THEN FsGetProjectByID(tbl[res], sq[res], id, "none").resp
         ELSE FsGetPackageByID(tbl[res], sq[res], id, "none").resp

\* The entry shows the row in full under the id.
FullRecord(res, id, row, entry) ==
    /\ entry.id = id
    /\ DOMAIN entry.data = StringFields(res) \cup (IF HasStacks(res) THEN {"stacks"} ELSE {})
    /\ \A f \in StringFields(res) : entry.data[f] = row[f]
    /\ HasStacks(res) => MarshalStacks(entry.data["stacks"]) = row["stacks"]

\* The ids of the entries of a list answer.
EntryIds(entries) == {entries[i].id : i \in 1..Len(entries)}

C2_CreateThenGet ==
    /\ (req.op = "create" /\ resp.status = 201) =>
           LET r == req.res
               e == resp.body[1]
           IN  /\ Len(resp.body) = 1
               /\ e.id \in DOMAIN store[r] \ DOMAIN before[r]
               /\ DOMAIN e.data =
                      StringFields(r) \cup (IF HasStacks(r) THEN {"stacks"} ELSE {})
               /\ \A f \in DOMAIN e.data : e.data[f] = req.body[f]
               /\ GetAnswer(store, seq, r, e.id).status = 200
               /\ GetAnswer(store, seq, r, e.id).body = resp.body
    /\ \A r \in Resources(variant) : \A id \in DOMAIN before[r] :
           ~(/\ req.res = r /\ req.op \in {"update", "delete"} /\ resp.status = 200
             /\ id = (IF variant = "fs" THEN req.id ELSE Sscan(req.id).val))
               => GetAnswer(store, seq, r, id) = GetAnswer(before, seq, r, id)

\* An accepted create of a second record, with a stacks list.
C2_Witness ==
    /\ req.op = "create" /\ resp.status = 201
    /\ Cardinality(DOMAIN store[req.res]) = 2
    /\ HasStacks(req.res) /\ GoLen(req.body.stacks) > 0

\* C3: in the relational build a create whose body leaves a required field
\* empty is answered 400 and leaves the store as it was.
C3_CreateRequiresFields ==
    (/\ variant = "rel" /\ req.op = "create" /\ ~req.malformed
     /\ \E f \in RequiredFields(req.res) : req.body[f] = "")
        => (resp.status = 400 /\ store = before)

\* A create with a name and without a link, refused with a record in store.
C3_Witness ==
    /\ variant = "rel" /\ req.op = "create" /\ ~req.malformed
    /\ req.body.name # "" /\ "link" \in RequiredFields(req.res) /\ req.body.link = ""
    /\ resp.status = 400
    /\ DOMAIN store[req.res] # {}

\* C4: in the document-store build a project create with a name and with an
\* empty imageUrl, link or description is answered 400 and adds no document.
C4_FsCreateRequiresFields ==
    (/\ variant = "fs" /\ req.op = "create" /\ req.res = "projects" /\ ~req.malformed
     /\ req.body.name # ""
     /\ (req.body.imageUrl = "" \/ req.body.link = "" \/ req.body.description = ""))
        => (resp.status = 400 /\ store = before)

\* C5: for every resource an update of an id no record has is answered 404
\* and leaves the store as it was.
C5_UpdateMissingIs404 ==
    (/\ req.op = "update" /\ ~req.malformed /\ req.fail = "none"
     /\ WellFormedId /\ TargetId \notin DOMAIN before[req.res])
        => (resp.status = 404 /\ store = before)

\* C6: in the relational build a delete of an id no record has is answered
\* 404 and leaves the store as it was.
C6_DeleteMissingIs404 ==
    (/\ variant = "rel" /\ req.op = "delete" /\ req.fail = "none"
     /\ WellFormedId /\ TargetId \notin DOMAIN before[req.res])
        => (resp.status = 404 /\ store = before)

\* C7: with the store reachable, a GET of an id answers 200 with the record
\* in full when a record has the id and 404 when none has; an answer of 200
\* never carries another id than the one asked for.
C7_GetByID ==
    (req.op = "get" /\ req.fail = "none" /\ WellFormedId) =>
        LET r == req.res
            id == TargetId
        IN  /\ store = before
            /\ id \in DOMAIN store[r] =>
                   /\ resp.status = 200
                   /\ Len(resp.body) = 1
                   /\ FullRecord(r, id, store[r][id], resp.body[1])
            /\ id \notin DOMAIN store[r] => resp.status = 404
            /\ resp.status \in {200, 404}

\* A GET of the second of two records, answered 200.
C7_Witness ==
    /\ req.op = "get" /\ req.fail = "none" /\ WellFormedId
    /\ resp.status = 200
    /\ Cardinality(DOMAIN store[req.res]) = 2
    /\ \E j \in DOMAIN store[req.res] :
           j # TargetId /\ store[req.res][j] # store[req.res][TargetId]

\* C8: once a delete of an id has been answered 200, no record has the id,
\* a GET of it is never answered 200 and is answered 404 when the store is
\* reachable, and no list answer has an entry with it.
C8_DeletedStaysGone ==
    /\ \A r \in Resources(variant) : deleted[r] \cap DOMAIN store[r] = {}
    /\ (req.op = "get" /\ WellFormedId /\ TargetId \in deleted[req.res]) =>
           /\ resp.status # 200
           /\ req.fail = "none" => resp.status = 404
    /\ (req.op = "list" /\ resp.status = 200) =>
           EntryIds(resp.body) \cap deleted[req.res] = {}

\* A GET of an id that was created and then deleted, answered 404.
C8_Witness ==
    /\ req.op = "get" /\ req.fail = "none" /\ WellFormedId
    /\ TargetId \in deleted[req.res] \cap created[req.res]
    /\ resp.status = 404
    /\ DOMAIN store[req.res] # {}

\* C9: a list answer has exactly one entry for each record created and not
\* deleted since, so N - M entries after N accepted creates and accepted
\* deletes of M distinct ids.
C9_ListIsCreatedMinusDeleted ==
    (req.op = "list" /\ resp.status = 200) =>
        LET r == req.res
        IN  /\ EntryIds(resp.body) = created[r] \ deleted[r]
            /\ Len(resp.body) = Cardinality(EntryIds(resp.body))
            /\ Len(resp.body) = Cardinality(created[r]) - Cardinality(deleted[r])

\* C10: with no record in the store a list is answered 200 with an empty
\* JSON array.
C10_EmptyListIsArray ==
    (req.op = "list" /\ req.fail = "none" /\ DOMAIN store[req.res] = {}) =>
        (resp.status = 200 /\ resp.enc = "array" /\ resp.body = <<>>)

\* C11: every record in the store has a name that is not empty.
C11_NamesNeverEmpty ==
    \A r \in AllResources : \A id \in DOMAIN store[r] : store[r][id]["name"] # ""

\* An update that gives no name has been accepted and the record is there.
C11_Witness ==
    /\ req.op = "update" /\ resp.status = 200 /\ req.body.name = ""
    /\ WellFormedId /\ TargetId \in DOMAIN store[req.res]
    /\ store[req.res] # before[req.res]

\* C12: an update adds and removes no id, the record an update answers with
\* carries the id of the request path, a create answers with an id no
\* record had, and no two entries of a list carry the same id.
C12_IdsImmutable ==
    /\ req.op = "update" => DOMAIN store[req.res] = DOMAIN before[req.res]
    /\ (req.op = "update" /\ resp.status = 200 /\ Len(resp.body) = 1) =>
           PathOf(resp.body[1].id) = req.id
    /\ (req.op = "create" /\ resp.status = 201) =>
           resp.body[1].id \in DOMAIN store[req.res] \ DOMAIN before[req.res]
    /\ (req.op = "list" /\ resp.status = 200) =>
           Len(resp.body) = Cardinality(EntryIds(resp.body))

\* C13: a project or package created with no stacks in the body is stored
\* with the empty list as its stacks, and GET by id and the list answer give
\* its stacks as an empty list, never as null.
C13_AbsentStacksIsEmpty ==
    /\ (HasStacks(req.res) /\ req.op = "create" /\ resp.status = 201 /\ req.body.stacks.nil) =>
           LET r == req.res
               id == resp.body[1].id
           IN  /\ store[r][id]["stacks"] = MarshalStacks(Slice(<<>>))
               /\ GetAnswer(store, seq, r, id).body[1].data["stacks"] = Slice(<<>>)
    /\ (HasStacks(req.res) /\ req.op \in {"get", "list"} /\ resp.status = 200) =>
           \A i \in 1..Len(resp.body) : ~resp.body[i].data["stacks"].nil

\* C14: every response a handler writes carries the JSON content type.
C14_AlwaysJSON ==
    resp.status # 0 => resp.ctype = "application/json"

\* C15: on the relational build a GET, PUT or DELETE whose path id is not a
\* decimal integer is answered 400 and leaves every record as it was.
C15_BadIdIs400 ==
    (variant = "rel" /\ req.op \in {"get", "update", "delete"} /\ Atoi(req.id).err) =>
        /\ resp.status = 400
        /\ store = before

\* The store operation of the request has failed for a reason other than a
\* missing record: the client could not be had, the first call on the
\* collection failed, or the write that follows a successful read failed.
StoreFailed ==
    \/ req.fail \in {"init", "store"}
    \/ req.fail = "store2" /\ TargetId \in DOMAIN before[req.res]

\* C16: a request whose store operation fails for a reason other than a
\* missing record is answered 500.
C16_StoreFailureIs500 ==
    StoreFailed => resp.status = 500

\* The method and the path of each of the five operations.
Ops == {"create", "list", "get", "update", "delete"}

MethodOf(op) ==
    IF op = "create" THEN "POST"
    ELSE IF op \in {"list", "get"} THEN "GET"
    ELSE IF op = "update" THEN "PUT" ELSE "DELETE"

PathKindOf(op) ==
    IF op = "create" THEN "new" ELSE IF op = "list" THEN "coll" ELSE "item"

\* C17: for projects, packages and clients alike the route table of the
\* server sends each of the five method and path pairs to the handler of
\* that operation on that resource.
C17_RoutesDispatch ==
    \A r \in AllResources : \A op \in Ops :
        Dispatch(Routes(variant), MethodOf(op), r, PathKindOf(op)) = [res |-> r, op |-> op]

\* C18: at most one store client is open at any time, it is the one main
\* opened at startup, and no request in flight holds a client of its own.
C18_OneConnection ==
    /\ Cardinality(conns) <= 1
    /\ conns \subseteq {"main"}

\* C19: the server listens, and a handler runs, only after the store client
\* has been set at startup; a failed startup ends the process.
C19_NoRequestWithoutStore ==
    /\ mainPC = "listening" => Client = "open"
    /\ \A w \in Workers : inflight[w].pc # "idle" => Client = "open"

\* Both goroutines have answered 200 to a PUT on the first project, one
\* supplying the name and the other the link.
BothUpdated ==
    /\ \A w \in Workers :
           /\ inflight[w].pc = "done"
           /\ inflight[w].op = "update"
           /\ inflight[w].status = 200
    /\ {inflight[w].field : w \in Workers} = {"name", "link"}

\* C20: on the document-store build, when two updates of one record that
\* supply different fields have both succeeded, the record carries both
\* values.
C20_UpdatesKeepBoth ==
    (variant = "fs" /\ BothUpdated) =>
        /\ store[ServerRes][ServerTarget].name = ServerUpdateBody("name").name
        /\ store[ServerRes][ServerTarget].link = ServerUpdateBody("link").link

\* C21: on the document-store build a record whose DELETE has been answered
\* 200 is not in the collection afterwards, whatever update of it was under
\* way: GET by id answers 404 and the list does not have it.
C21_DeletedStaysGoneConcurrently ==
    variant = "fs" =>
        \A id \in deleted[ServerRes] : id \notin DOMAIN store[ServerRes]

\* C22: UpdatePackageHandler of the earlier build accepts an update of a
\* stored package that gives only some of name, link and description, a
\* missing name included, and leaves the fields it does not give as stored.
C22_OldUpdateIsSparse ==
    (/\ variant = "old" /\ req.op = "update"
     /\ ~req.malformed /\ req.fail = "none"
     /\ WellFormedId /\ TargetId \in DOMAIN before["packages"]) =>
        /\ resp.status = 200
        /\ \A f \in {"name", "link", "description"} :
               req.body[f] = "" =>
                   store["packages"][TargetId][f] = before["packages"][TargetId][f]

\* C23: on the relational build no update turns a string field that is not
\* empty, or a stacks list that is not empty, of a stored record into the
\* empty value.
C23_UpdateNeverEmpties ==
    (variant = "rel" /\ req.op = "update") =>
        LET r == req.res
        IN  \A id \in DOMAIN before[r] \cap DOMAIN store[r] :
                /\ \A f \in StringFields(r) :
                       before[r][id][f] # "" => store[r][id][f] # ""
                /\ (HasStacks(r) /\ GoLen(DecodeStacks(before[r][id]["stacks"])) > 0) =>
                       GoLen(DecodeStacks(store[r][id]["stacks"])) > 0

\* An update whose body carries an empty stacks list and no link has been
\* accepted for a project that has stacks and a link.
C23_Witness ==
    /\ variant = "rel" /\ req.op = "update" /\ req.res = "projects"
    /\ resp.status = 200
    /\ WellFormedId /\ TargetId \in DOMAIN before["projects"]
    /\ ~req.body.stacks.nil /\ GoLen(req.body.stacks) = 0 /\ req.body.link = ""
    /\ GoLen(DecodeStacks(before["projects"][TargetId]["stacks"])) > 0
    /\ before["projects"][TargetId]["link"] # ""

\* The table of res after DELETE /{res}/{idStr} on the tables tbl, the store
\* being reachable.
TableAfterDelete(tbl, sq, res, idStr) ==
    IF variant = "rel"
    THEN IF res = "projects" THEN DeleteProject(tbl[res], sq[res], idStr, FALSE).table
         ELSE IF res = "packages" THEN DeletePackage(tbl[res], sq[res], idStr, FALSE).table
         ELSE DeleteClient(tbl[res], sq[res], idStr, FALSE).table
    ELSE IF variant = "old"
    THEN OldDeletePackage(tbl[res], sq[res], idStr, FALSE).table
    ELSE IF res = "projects" THEN FsDeleteProject(tbl[res], sq[res], idStr, "none").table
         ELSE FsDeletePackage(tbl[res], sq[res], idStr, "none").table

\* C24: the same DELETE sent again after one that was answered 200 leaves
\* the store as the first left it, and a DELETE by an id removes no record
\* but the one with that id and changes none.
C24_DeleteIdempotent ==
    req.op = "delete" =>
        LET r == req.res
        IN  /\ resp.status = 200 =>
                   TableAfterDelete(store, seq, r, req.id) = store[r]
            /\ WellFormedId =>
                   \A id \in DOMAIN before[r] \ {TargetId} :
                       id \in DOMAIN store[r] /\ store[r][id] = before[r][id]

\* A DELETE has removed a record and left another one in its table.
C24_Witness ==
    /\ req.op = "delete" /\ resp.status = 200
    /\ WellFormedId /\ TargetId \in DOMAIN before[req.res]
    /\ TargetId \notin DOMAIN store[req.res]
    /\ DOMAIN store[req.res] # {}

\* C25: on the document-store build a DELETE by an id that no document has
\* is answered 200 with the confirmation message and changes nothing.
C25_FsDeleteMissingIs200 ==
    (/\ variant = "fs" /\ req.op = "delete" /\ req.fail = "none"
     /\ req.id \notin DOMAIN before[req.res]) =>
        /\ resp.status = 200
        /\ resp.enc = "message"
        /\ store = before

\* Such a DELETE has been answered, with documents in the collection.
C25_Witness ==
    /\ variant = "fs" /\ req.op = "delete" /\ req.fail = "none"
    /\ req.id \notin DOMAIN before[req.res]
    /\ DOMAIN before[req.res] # {}
    /\ resp.status = 200

\* The resources whose schema declares name Unique and MaxLen(100).
UniqueNamed == {"packages", "clients"}

\* The name the last request gives is held by a record other than `own`.
NameTaken(own) ==
    /\ req.body.name # ""
    /\ \E j \in DOMAIN before[req.res] \ own :
           before[req.res][j]["name"] = req.body.name

\* The last request, applied, would leave two records with one name or a
\* name longer than the schema allows.
WouldBreakName ==
    /\ req.res \in UniqueNamed
    /\ ~req.malformed
    /\ \/ req.op = "create" /\ (NameTaken({}) \/ StrLen(req.body.name) > NameMaxLen)
       \/ /\ req.op = "update" /\ WellFormedId
          /\ NameTaken({TargetId}) \/ StrLen(req.body.name) > NameMaxLen

\* C26: on the relational build no two packages and no two clients have the
\* same name, no name of theirs is longer than 100 characters, and a create
\* or update that would break either rule is answered with an error status
\* and changes nothing.
C26_UniqueBoundedNames ==
    variant = "rel" =>
        /\ \A r \in UniqueNamed :
               \A i \in DOMAIN store[r] :
                   /\ StrLen(store[r][i]["name"]) <= NameMaxLen
                   /\ \A j \in DOMAIN store[r] :
                          i # j => store[r][i]["name"] # store[r][j]["name"]
        /\ WouldBreakName => resp.status >= 400 /\ store = before

\* An update that gives a record the name of another has been answered.
C26_Witness ==
    /\ variant = "rel" /\ req.op = "update" /\ WouldBreakName
    /\ TargetId \in DOMAIN before[req.res]
    /\ NameTaken({TargetId})
    /\ resp.status = 500

\* C27: a request that is not answered 2xx, and a GET whatever its answer,
\* leaves every record of every table as it was.
C27_ErrorsAndReadsChangeNothing ==
    (resp.status \notin 200..299 \/ req.op \in {"get", "list"}) => store = before

\* An update of a stored record has been refused: its body was malformed,
\* or the store failed under it.
C27_Witness ==
    /\ req.op = "update" /\ resp.status \in {400, 500}
    /\ req.malformed \/ req.fail # "none"
    /\ WellFormedId /\ TargetId \in DOMAIN before[req.res]

\* C28: on the relational build, when two updates of one record that supply
\* different fields have both succeeded, the record carries both values.
C28_RelUpdatesKeepBoth ==
    (variant = "rel" /\ BothUpdated) =>
        /\ store[ServerRes][ServerTargetKey]["name"] = ServerUpdateBody("name").name
        /\ store[ServerRes][ServerTargetKey]["link"] = ServerUpdateBody("link").link

\* Two such updates of a client were in flight together and both were
\* answered 200.
C28_Witness ==
    /\ variant = "rel" /\ ServerRes = "clients"
    /\ BothUpdated
    /\ ServerTargetKey \in DOMAIN store["clients"]

\* C29: a request on one resource leaves the tables of the other resources
\* as they were, and a request by an id that its own table does not have
\* finds nothing, whatever the other tables hold under that id: it changes
\* nothing, and a GET answers 404; a GET by an id answers with the record
\* of its own table.
C29_ResourcesIndependent ==
    req.op # "none" =>
        /\ \A r \in AllResources \ {req.res} : store[r] = before[r]
        /\ (/\ req.op \in {"get", "update", "delete"}
            /\ req.fail = "none" /\ ~req.malformed
            /\ WellFormedId /\ TargetId \notin DOMAIN before[req.res]) =>
               /\ store = before
               /\ req.op = "get" => resp.status = 404
        /\ (req.op = "get" /\ WellFormedId /\ resp.status = 200) =>
               FullRecord(req.res, TargetId, before[req.res][TargetId], resp.body[1])

\* A DELETE has removed a record whose id another table has too.
C29_Witness ==
    /\ req.op = "delete" /\ resp.status = 200
    /\ WellFormedId /\ TargetId \in DOMAIN before[req.res]
    /\ \E r \in AllResources \ {req.res} : TargetId \in DOMAIN store[r]

====
